---------------------------- MODULE Spec2Model ----------------------------
(***************************************************************************)
(* Model of main.py: the lottery-history mirror.                           *)
(*                                                                         *)
(*   fetch_job   (lines 48-81)  polls upstream and inserts unseen issues   *)
(*   get_history (lines 88-132) returns the 50 greatest issues as JSON     *)
(*   history     (lines 35-42)  the table, issue TEXT PRIMARY KEY          *)
(*                                                                         *)
(* Text values whose order matters (issue) are sequences of character      *)
(* codes: 0..9 are the digits, codes >= 10 are non-digit characters.       *)
(* A JSON scalar is [t |-> "int", v |-> n] or [t |-> "str", v |-> chars].  *)
(***************************************************************************)
EXTENDS Integers, Sequences, FiniteSets, TLC

VARIABLES
    backend,    \* "pg" when DATABASE_URL is set, "sqlite" otherwise (line 19)
    db,         \* committed rows of table history, in insertion order
    pc,         \* per fetcher: position in fetch_job
    data,       \* per fetcher: the list parsed from the upstream body (line 54)
    idx,        \* per fetcher: 1-based position of the for loop (line 60)
    new_count,  \* per fetcher: local new_count (lines 59, 73)
    pending,    \* per fetcher: rows inserted on its connection, not committed
    conn,       \* per fetcher: "none" | "open" | "txn" | "closed"
    exc,        \* per fetcher: the exception caught at line 80, or "none"
    log,        \* per fetcher: the counts printed by line 78 in this cycle
    resp,       \* the last response of /api/history, or NoResponse
    rd,         \* get_history: its connection and the exception it caught
    prev,       \* history variable: summary of the fetcher's previous cycle
    raced       \* history variable: issues the last cycles both found absent at once

vars == <<backend, db, pc, data, idx, new_count, pending, conn, exc, log, resp, rd, prev, raced>>

fvars == <<pc, data, idx, new_count, pending, conn, exc, log>>

-----------------------------------------------------------------------------
(* Bounds *)

MaxItems == 2

MaxStored == 56

(* Program constants *)

HistoryLimit == 50

Fetchers == {1, 2}

-----------------------------------------------------------------------------
(* JSON scalars and Python's str() / int() *)

JInt(n) == [t |-> "int", v |-> n]

JStr(s) == [t |-> "str", v |-> s]

RECURSIVE Digits(_)
Digits(n) == IF n < 10 THEN <<n>> ELSE Append(Digits(n \div 10), n % 10)

\* str(x), lines 61, 112, 119: the decimal digits of an int, a str unchanged
PyStr(j) == IF j.t = "int" THEN Digits(j.v) ELSE j.v

IsDigits(s) == Len(s) > 0 /\ \A k \in 1..Len(s) : s[k] \in 0..9

\* A Python int has no width: it is held as its decimal numeral without
\* leading zeros, so that values beyond 32 bits can be written down.
RECURSIVE Canonical(_)
Canonical(s) == IF Len(s) > 1 /\ s[1] = 0 THEN Canonical(Tail(s)) ELSE s

\* int(x), line 62: an int unchanged, a str of digits parsed, else ValueError
PyIntOk(j) == j.t = "int" \/ IsDigits(j.v)

PyInt(j) == IF j.t = "int" THEN Digits(j.v) ELSE Canonical(j.v)

-----------------------------------------------------------------------------
(* Upstream items and responses *)

G10 == [issueNumber |-> JStr(<<1, 0>>), number |-> JInt(3), openTime |-> "T1"]

G9 == [issueNumber |-> JInt(9), number |-> JStr(<<0, 7>>), openTime |-> "T2"]

G9b == [issueNumber |-> JStr(<<9>>), number |-> JInt(5), openTime |-> "T3"]

NoNumber == [issueNumber |-> JInt(11), openTime |-> "T4"]

G10b == [issueNumber |-> JInt(10), number |-> JStr(<<1, 2>>), openTime |-> "T5"]

BadNumber == [issueNumber |-> JInt(9), number |-> JStr(<<10>>), openTime |-> "T2"]

\* the upstream feed; a response is a page of consecutive items of it
Feed == <<G10, G9, G10b, NoNumber, G9b, G9, BadNumber>>

Pages == {SubSeq(Feed, a, b) : a \in 1..Len(Feed), b \in 0..Len(Feed)}

\* the bodies upstream may return: pages of at most MaxItems items
Responses == {p \in Pages : Len(p) <= MaxItems}

-----------------------------------------------------------------------------
(* Lines 61-63: the three field reads of one item *)

\* the exception lines 61-63 raise on the item, or "none"
ItemError(item) ==
    IF "issueNumber" \notin DOMAIN item THEN "KeyError"
    ELSE IF "number" \notin DOMAIN item THEN "KeyError"
    ELSE IF ~PyIntOk(item.number) THEN "ValueError"
    ELSE IF "openTime" \notin DOMAIN item THEN "KeyError"
    ELSE "none"

WellFormed(item) == ItemError(item) = "none"

\* the row fetch_job builds from a well-formed item
Normalize(item) ==
    [issue |-> PyStr(item.issueNumber),
     code |-> PyInt(item.number),
     open_time |-> item.openTime]

-----------------------------------------------------------------------------
(* The table history and its statements *)

HasIssue(rows, issue) == \E k \in 1..Len(rows) : rows[k].issue = issue

CountIssue(rows, issue) == Cardinality({k \in 1..Len(rows) : rows[k].issue = issue})

\* SELECT issue FROM history WHERE issue = ?  followed by fetchone()
SelectIssue(rows, issue) == HasIssue(rows, issue)

\* INSERT on a table with no key constraint
InsertNoKey(table, own, row) ==
    [err |-> FALSE, table |-> table, own |-> Append(own, row)]

\* INSERT OR REPLACE: the new row takes the place of the stored one
InsertOrReplace(table, own, row) ==
    [err |-> FALSE,
     table |-> SelectSeq(table, LAMBDA r : r.issue # row.issue),
     own |-> Append(SelectSeq(own, LAMBDA r : r.issue # row.issue), row)]

\* INSERT INTO history (issue, code, open_time) VALUES (...), issue being the
\* the same statement on a connection in autocommit mode
InsertAutocommit(table, own, row) ==
    IF HasIssue(table \o own, row.issue)
    THEN [err |-> TRUE, table |-> table, own |-> own]
    ELSE [err |-> FALSE, table |-> Append(table, row), own |-> own]

\* PRIMARY KEY: a unique violation, or the row added to the transaction
InsertStmt(table, own, row) ==
    IF HasIssue(table \o own, row.issue)
    THEN [err |-> TRUE, table |-> table, own |-> own]
    ELSE [err |-> FALSE, table |-> table, own |-> Append(own, row)]

\* text order of the issue column
RECURSIVE StrLess(_, _)
StrLess(a, b) ==
    IF Len(b) = 0 THEN FALSE
    ELSE IF Len(a) = 0 THEN TRUE
    ELSE IF a[1] # b[1] THEN a[1] < b[1]
    ELSE StrLess(Tail(a), Tail(b))

\* a <= b for two ints held as numerals
NumLeq(a, b) == Len(a) < Len(b) \/ (Len(a) = Len(b) /\ ~StrLess(b, a))

\* the greatest value of a 32-bit and of a 64-bit signed integer
Int4Max == <<2, 1, 4, 7, 4, 8, 3, 6, 4, 7>>

Int8Max == <<9, 2, 2, 3, 3, 7, 2, 0, 3, 6, 8, 5, 4, 7, 7, 5, 8, 0, 7>>

\* line 38, code INTEGER: four bytes in PostgreSQL, up to eight in SQLite;
\* a value out of range makes the INSERT raise
ColumnAccepts(b, code) == NumLeq(code, IF b = "pg" THEN Int4Max ELSE Int8Max)

\* ORDER BY issue DESC: each row goes to the place its rank gives it; rows
\* with equal issue keep their stored order
OrderDesc(table) ==
    LET n == Len(table)
        before(i) == {j \in 1..n : \/ StrLess(table[i].issue, table[j].issue)
                                   \/ table[j].issue = table[i].issue /\ j < i}
        rank == [i \in 1..n |-> Cardinality(before(i)) + 1]
    IN  [k \in 1..n |-> table[CHOOSE i \in 1..n : rank[i] = k]]

Reverse(seq) == [k \in 1..Len(seq) |-> seq[Len(seq) + 1 - k]]

Min(a, b) == IF a < b THEN a ELSE b

\* the same statement with ORDER BY issue ASC
RecentAscending(table, limit) ==
    LET sorted == Reverse(OrderDesc(table))
    IN  SubSeq(sorted, 1, Min(limit, Len(sorted)))

\* SELECT issue, code, open_time FROM history ORDER BY issue DESC LIMIT n
RecentRecords(table, limit) ==
    LET sorted == OrderDesc(table)
    IN  SubSeq(sorted, 1, Min(limit, Len(sorted)))

-----------------------------------------------------------------------------
(* get_history *)

NoResponse == [status |-> 0]

\* the same item built with the wrong column index for number
FormatRowWrongColumn(row) ==
    [issueNumber |-> row.issue, number |-> row.issue, openTime |-> row.open_time]

\* lines 110-114 / 117-121: one item of the list; str(code) is the numeral
\* the int is held as
FormatRow(row) ==
    [issueNumber |-> row.issue,
     number |-> row.code,
     openTime |-> row.open_time]

\* the same payload with the number of stored records as totalCount
SuccessPayloadStoredTotal(rows) ==
    LET list == [k \in 1..Len(rows) |-> FormatRow(rows[k])]
    IN  [status |-> 200,
         body |-> [code |-> 0, msg |-> "Success",
                   data |-> [totalCount |-> Len(db), list |-> list]]]

\* lines 123-130
SuccessPayload(rows) ==
    LET list == [k \in 1..Len(rows) |-> FormatRow(rows[k])]
    IN  [status |-> 200,
         body |-> [code |-> 0, msg |-> "Success",
                   data |-> [totalCount |-> Len(list), list |-> list]]]

\* line 132
ErrorPayload == [status |-> 500, body |-> [error |-> "OperationalError"]]

\* get_history between requests: no connection, no exception
IdleReader == [conn |-> "none", exc |-> "none"]

\* where lines 92-102 leave the connection: never opened when connect
\* raised, open when execute or fetchall raised, closed at line 102 otherwise
ReaderAfter(e) ==
    [conn |-> CASE e = "ConnectError" -> "none"
                [] e = "QueryError" -> "open"
                [] OTHER -> "closed",
     exc |-> e]

\* a handler that answers a store failure with an empty success payload
HistoryResponseSwallow(e, rows) ==
    SuccessPayload(IF e = "none" THEN rows ELSE <<>>)

\* lines 91-132: the success payload, or the payload of the except branch
HistoryResponse(e, rows) ==
    IF e = "none" THEN SuccessPayload(rows) ELSE ErrorPayload

\* a handler that trims the table to the rows it served
GetHistoryTrim ==
    /\ resp = NoResponse
    /\ resp' = SuccessPayload(RecentRecords(db, 1))
    /\ rd' = ReaderAfter("none")
    /\ db' = RecentRecords(db, 1)
    /\ UNCHANGED <<backend, fvars>>

\* one request: connect, select, close, format; or a store operation raises
GetHistory ==
    /\ resp = NoResponse
    /\ \E e \in {"none", "ConnectError", "QueryError"} :
          /\ resp' = HistoryResponse(e, RecentRecords(db, HistoryLimit))
          /\ rd' = ReaderAfter(e)
    /\ UNCHANGED <<backend, db, fvars>>

\* the response is sent and get_history returns: its locals go, and with
\* them a connection it left open
Deliver ==
    /\ resp # NoResponse
    /\ resp' = NoResponse
    /\ rd' = IdleReader
    /\ UNCHANGED <<backend, db, fvars>>

-----------------------------------------------------------------------------
(* fetch_job *)

Others(f) == Fetchers \ {f}

CurItem(f) == data[f][idx[f]]

\* a cursor that sees committed rows only
CommittedOnly(f) == db

\* what the statements of a cycle see: the committed rows and the rows of
\* its own open transaction
Visible(f) == db \o pending[f]

\* the statement waits: another connection holds the row (pg) or the
\* database write lock (sqlite)
BlockedOn(b, f) ==
    \E g \in Others(f) :
        /\ conn[g] = "txn"
        /\ IF b = "pg"
           THEN HasIssue(pending[g], Normalize(CurItem(f)).issue)
           ELSE TRUE

Blocked(f) == BlockedOn(backend, f)

\* a handler for the errors of the upstream call only
CaughtUpstreamOnly(e) == e = "UpstreamError"

\* line 80, except Exception: every error class raised in the try block
\* derives from Exception
Caught(e) ==
    e \in {"UpstreamError", "ConnectError", "KeyError", "ValueError",
           "IntegrityError", "LockTimeout", "Deadlock", "DataError"}

\* lines 80-81: the exception is caught and printed, or leaves fetch_job
Fail(f, e) ==
    /\ pc' = [pc EXCEPT ![f] = IF Caught(e) THEN "failed" ELSE "raised"]
    /\ exc' = [exc EXCEPT ![f] = e]

\* a cycle that prints the count whatever it is
SavedLineAlways(n) == {n}

\* lines 77-78: the count is printed when it is greater than zero
SavedLine(n) == IF n > 0 THEN {n} ELSE {}

\* lines 51-57: the request, the body, the connection
FetchFrom(f, bodies) ==
    /\ pc[f] = "idle"
    /\ \/ /\ Fail(f, "UpstreamError")
          /\ UNCHANGED <<data, idx, conn>>
       \/ \E body \in bodies :
             /\ data' = [data EXCEPT ![f] = body]
             /\ \/ /\ Fail(f, "ConnectError")
                   /\ UNCHANGED <<idx, conn>>
                \/ /\ conn' = [conn EXCEPT ![f] = "open"]
                   /\ idx' = [idx EXCEPT ![f] = 1]
                   /\ pc' = [pc EXCEPT ![f] = "item"]
                   /\ UNCHANGED exc
    /\ UNCHANGED <<backend, db, new_count, pending, log, resp, rd>>

Fetch(f) == FetchFrom(f, Responses)

\* lines 60-68: read the item's fields, then look the issue up
Select(f) ==
    /\ pc[f] = "item"
    /\ idx[f] <= Len(data[f])
    /\ IF ~WellFormed(CurItem(f))
       THEN /\ Fail(f, ItemError(CurItem(f)))
            /\ UNCHANGED idx
       ELSE IF SelectIssue(Visible(f), Normalize(CurItem(f)).issue)
       THEN /\ idx' = [idx EXCEPT ![f] = @ + 1]
            /\ UNCHANGED <<pc, exc>>
       ELSE /\ pc' = [pc EXCEPT ![f] = "insert"]
            /\ UNCHANGED <<idx, exc>>
    /\ UNCHANGED <<backend, db, data, new_count, pending, conn, log, resp, rd>>

\* lines 69-73 on engine b: the insert and the count
InsertOn(b, f) ==
    /\ pc[f] = "insert"
    /\ ~BlockedOn(b, f)
    /\ LET row == Normalize(CurItem(f))
           res == IF ColumnAccepts(b, row.code)
                  THEN InsertStmt(db, pending[f], row)
                  ELSE [err |-> TRUE, table |-> db, own |-> pending[f]]
       IN  /\ db' = res.table
           /\ pending' = [pending EXCEPT ![f] = res.own]
           /\ conn' = [conn EXCEPT ![f] = "txn"]
           /\ IF res.err
              THEN /\ Fail(f, IF ColumnAccepts(b, row.code)
                              THEN "IntegrityError" ELSE "DataError")
                   /\ UNCHANGED <<idx, new_count>>
              ELSE /\ new_count' = [new_count EXCEPT ![f] = @ + 1]
                   /\ idx' = [idx EXCEPT ![f] = @ + 1]
                   /\ pc' = [pc EXCEPT ![f] = "item"]
                   /\ UNCHANGED exc
    /\ UNCHANGED <<backend, data, log, resp, rd>>

Insert(f) == InsertOn(backend, f)

\* sqlite: the write lock is not released within the busy timeout
InsertTimeout(f) ==
    /\ pc[f] = "insert"
    /\ backend = "sqlite"
    /\ Blocked(f)
    /\ Fail(f, "LockTimeout")
    /\ UNCHANGED <<backend, db, data, idx, new_count, pending, conn, log, resp, rd>>

\* pg: two inserts wait for each other; the server aborts one of them
InsertDeadlock(f) ==
    /\ pc[f] = "insert"
    /\ backend = "pg"
    /\ \E g \in Others(f) :
          /\ pc[g] = "insert"
          /\ HasIssue(pending[g], Normalize(CurItem(f)).issue)
          /\ HasIssue(pending[f], Normalize(CurItem(g)).issue)
    /\ Fail(f, "Deadlock")
    /\ UNCHANGED <<backend, db, data, idx, new_count, pending, conn, log, resp, rd>>

\* the same end of cycle without conn.commit(): close rolls the rows back
CommitMissing(f) ==
    /\ pc[f] = "item"
    /\ idx[f] > Len(data[f])
    /\ db' = db
    /\ pending' = [pending EXCEPT ![f] = <<>>]
    /\ conn' = [conn EXCEPT ![f] = "closed"]
    /\ pc' = [pc EXCEPT ![f] = "done"]
    /\ log' = [log EXCEPT ![f] = SavedLine(new_count[f])]
    /\ UNCHANGED <<backend, data, idx, new_count, exc, resp, rd>>

\* lines 75-78: commit, close, log
Commit(f) ==
    /\ pc[f] = "item"
    /\ idx[f] > Len(data[f])
    /\ db' = db \o pending[f]
    /\ pending' = [pending EXCEPT ![f] = <<>>]
    /\ conn' = [conn EXCEPT ![f] = "closed"]
    /\ pc' = [pc EXCEPT ![f] = "done"]
    /\ log' = [log EXCEPT ![f] = SavedLine(new_count[f])]
    /\ UNCHANGED <<backend, data, idx, new_count, exc, resp, rd>>

\* fetch_job returns: its locals go, and with them a connection it left
\* open, whose transaction the store rolls back
Return(f) ==
    /\ pc[f] \in {"done", "failed"}
    /\ pc' = [pc EXCEPT ![f] = "idle"]
    /\ data' = [data EXCEPT ![f] = <<>>]
    /\ idx' = [idx EXCEPT ![f] = 0]
    /\ new_count' = [new_count EXCEPT ![f] = 0]
    /\ pending' = [pending EXCEPT ![f] = <<>>]
    /\ conn' = [conn EXCEPT ![f] = "none"]
    /\ exc' = [exc EXCEPT ![f] = "none"]
    /\ log' = [log EXCEPT ![f] = {}]
    /\ UNCHANGED <<backend, db, resp, rd>>

-----------------------------------------------------------------------------
(* The program: two overlapping runs of fetch_job and the request handler *)

NeverRan == [exc |-> "never", data |-> <<>>, db |-> <<>>]

Init ==
    /\ backend \in {"pg", "sqlite"}
    /\ db = <<>>
    /\ pc = [f \in Fetchers |-> "idle"]
    /\ data = [f \in Fetchers |-> <<>>]
    /\ idx = [f \in Fetchers |-> 0]
    /\ new_count = [f \in Fetchers |-> 0]
    /\ pending = [f \in Fetchers |-> <<>>]
    /\ conn = [f \in Fetchers |-> "none"]
    /\ exc = [f \in Fetchers |-> "none"]
    /\ log = [f \in Fetchers |-> {}]
    /\ resp = NoResponse
    /\ rd = IdleReader
    /\ prev = NeverRan
    /\ raced = {}

\* the issues every running cycle has found absent and not yet inserted
Racing ==
    {x \in {Normalize(G).issue : G \in {Feed[k] : k \in {j \in 1..Len(Feed) : WellFormed(Feed[j])}}} :
        \A f \in Fetchers : pc[f] = "insert" /\ Normalize(CurItem(f)).issue = x}

Next ==
    \/ \E f \in Fetchers : Fetch(f) /\ raced' = {} /\ UNCHANGED prev
    \/ \E f \in Fetchers : Select(f) /\ raced' = raced \cup Racing' /\ UNCHANGED prev
    \/ \E f \in Fetchers : Insert(f) /\ UNCHANGED <<prev, raced>>
    \/ \E f \in Fetchers : InsertTimeout(f) /\ UNCHANGED <<prev, raced>>
    \/ \E f \in Fetchers : InsertDeadlock(f) /\ UNCHANGED <<prev, raced>>
    \/ \E f \in Fetchers : Commit(f) /\ UNCHANGED <<prev, raced>>
    \/ \E f \in Fetchers : Return(f) /\ UNCHANGED <<prev, raced>>
    \/ GetHistory /\ UNCHANGED <<prev, raced>>
    \/ Deliver /\ UNCHANGED <<prev, raced>>

Spec == Init /\ [][Next]_vars

-----------------------------------------------------------------------------
(* One scheduler, no overlap: the cycles of one fetcher in sequence.  prev  *)
(* records, when a cycle returns, how it ended, the body it had received    *)
(* and the table it left.                                                    *)

Scheduled == CHOOSE f \in Fetchers : TRUE

NextSeq ==
    \/ Fetch(Scheduled) /\ UNCHANGED <<prev, raced>>
    \/ Select(Scheduled) /\ UNCHANGED <<prev, raced>>
    \/ Insert(Scheduled) /\ UNCHANGED <<prev, raced>>
    \/ Commit(Scheduled) /\ UNCHANGED <<prev, raced>>
    \/ /\ Return(Scheduled)
       /\ prev' = [exc |-> exc[Scheduled], data |-> data[Scheduled], db |-> db]
       /\ UNCHANGED raced
    \/ GetHistory /\ UNCHANGED <<prev, raced>>
    \/ Deliver /\ UNCHANGED <<prev, raced>>

SpecSeq == Init /\ [][NextSeq]_vars

-----------------------------------------------------------------------------
(* The same program on either engine: one scheduler, and an upstream whose  *)
(* feed has a number wider than 32 bits.  StepOn(b) is the step the program *)
(* takes when its store is engine b.                                        *)

GWide ==
    [issueNumber |-> JInt(12),
     number |-> JStr(<<3, 0, 0, 0, 0, 0, 0, 0, 0, 0>>),
     openTime |-> "T6"]

WideFeed == <<G10, GWide, G9>>

WideResponses ==
    {p \in {SubSeq(WideFeed, a, b) : a \in 1..Len(WideFeed), b \in 0..Len(WideFeed)} :
        Len(p) <= MaxItems}

StepOn(b) ==
    \/ FetchFrom(Scheduled, WideResponses) /\ UNCHANGED <<prev, raced>>
    \/ Select(Scheduled) /\ UNCHANGED <<prev, raced>>
    \/ InsertOn(b, Scheduled) /\ UNCHANGED <<prev, raced>>
    \/ Commit(Scheduled) /\ UNCHANGED <<prev, raced>>
    \/ Return(Scheduled) /\ UNCHANGED <<prev, raced>>
    \/ GetHistory /\ UNCHANGED <<prev, raced>>
    \/ Deliver /\ UNCHANGED <<prev, raced>>

\* the step on the engine DATABASE_URL selects
NextModes ==
    \/ FetchFrom(Scheduled, WideResponses) /\ UNCHANGED <<prev, raced>>
    \/ Select(Scheduled) /\ UNCHANGED <<prev, raced>>
    \/ Insert(Scheduled) /\ UNCHANGED <<prev, raced>>
    \/ Commit(Scheduled) /\ UNCHANGED <<prev, raced>>
    \/ Return(Scheduled) /\ UNCHANGED <<prev, raced>>
    \/ GetHistory /\ UNCHANGED <<prev, raced>>
    \/ Deliver /\ UNCHANGED <<prev, raced>>

SpecModes == Init /\ [][NextModes]_vars

-----------------------------------------------------------------------------
(* The request handler over a table that many cycles have filled: the rows  *)
(* of Count consecutive draws numbered from First, in the order stored.     *)

DrawRow(n) == [issue |-> Digits(n), code |-> Digits(n % 10), open_time |-> "T1"]

StoredDraws(first, count) == [k \in 1..count |-> DrawRow(first + k - 1)]

InitHistory ==
    /\ backend \in {"pg", "sqlite"}
    /\ db \in {StoredDraws(first, count) : first \in {1, 95}, count \in 0..MaxStored}
    /\ pc = [f \in Fetchers |-> "idle"]
    /\ data = [f \in Fetchers |-> <<>>]
    /\ idx = [f \in Fetchers |-> 0]
    /\ new_count = [f \in Fetchers |-> 0]
    /\ pending = [f \in Fetchers |-> <<>>]
    /\ conn = [f \in Fetchers |-> "none"]
    /\ exc = [f \in Fetchers |-> "none"]
    /\ log = [f \in Fetchers |-> {}]
    /\ resp = NoResponse
    /\ rd = IdleReader
    /\ prev = NeverRan
    /\ raced = {}

NextHistory ==
    \/ GetHistory /\ UNCHANGED <<prev, raced>>
    \/ Deliver /\ UNCHANGED <<prev, raced>>

SpecHistory == InitHistory /\ [][NextHistory]_vars

-----------------------------------------------------------------------------
(* Properties *)

Finished(f) == pc[f] \in {"done", "failed"}

\* C1: in every reachable state the issue values of the rows of history are
\* pairwise distinct, whatever cycles overlapped, failed or raced.
DedupInvariant ==
    \A i, j \in 1..Len(db) : i # j => db[i].issue # db[j].issue

\* a cycle lost the race for an issue: its insert was refused, the row of the
\* other cycle is the one stored
DedupWitness ==
    \E f \in Fetchers :
        /\ pc[f] = "failed"
        /\ exc[f] = "IntegrityError"
        /\ CountIssue(db, Normalize(CurItem(f)).issue) = 1

\* C6: a committed row stays where it is, with the code and open_time it
\* was first written with, in every later state: no step deletes or changes
\* it, also not a cycle whose body carries the issue with other values.
AppendOnlyFirstWriteWins ==
    [][\A k \in 1..Len(db) : Len(db') >= k /\ db'[k] = db[k]]_vars

\* issue 9 was stored with code 7; a later cycle whose body has issue 9 with
\* code 5 has completed, and the row is as first written
FirstWriteWinsWitness ==
    \E f \in Fetchers :
        /\ pc[f] = "done"
        /\ data[f] = <<G9b>>
        /\ \E k \in 1..Len(db) : db[k] = [issue |-> <<9>>, code |-> <<7>>, open_time |-> "T2"]

\* C9: a step that answers a /api/history request, with a success or with an
\* error payload, leaves the committed rows and every open transaction as
\* they were.
HistoryNeverWrites ==
    [][(resp = NoResponse /\ resp' # NoResponse) => (db' = db /\ pending' = pending)]_vars

\* a request was answered from a non-empty table while a cycle had an
\* uncommitted insert
HistoryReadWitness ==
    /\ resp # NoResponse
    /\ resp.status = 200
    /\ Len(db) >= 1
    /\ \E f \in Fetchers : pending[f] # <<>>

\* C7: for every content of the table, the list of a successful response is
\* in descending text order of the issue, has min(50, rows stored) items, and
\* its items are the rows with the greatest issues.
HistoryOrdering ==
    (resp # NoResponse /\ resp.status = 200) =>
        LET list == resp.body.data.list
            listed == {list[i].issueNumber : i \in 1..Len(list)}
        IN  /\ Len(list) = IF Len(db) < 50 THEN Len(db) ELSE 50
            /\ \A i, j \in 1..Len(list) :
                  i < j => StrLess(list[j].issueNumber, list[i].issueNumber)
            /\ \A i \in 1..Len(list) : HasIssue(db, list[i].issueNumber)
            /\ \A k \in 1..Len(db) :
                  \/ db[k].issue \in listed
                  \/ \A x \in listed : StrLess(db[k].issue, x)

\* more than 50 rows are stored, among them issues 99 and 100 whose text
\* order is not their numeric order, and a request was answered
HistoryOrderingWitness ==
    /\ resp # NoResponse
    /\ resp.status = 200
    /\ Len(db) > 50
    /\ HasIssue(db, <<9, 9>>)
    /\ HasIssue(db, <<1, 0, 0>>)

\* what /api/history must list for each well-formed item of the feed: the
\* identifier as text, the code as its decimal text, the label unchanged
Listed(item) ==
    CASE item = G10  -> [issueNumber |-> <<1, 0>>, number |-> <<3>>, openTime |-> "T1"]
      [] item = G9   -> [issueNumber |-> <<9>>, number |-> <<7>>, openTime |-> "T2"]
      [] item = G9b  -> [issueNumber |-> <<9>>, number |-> <<5>>, openTime |-> "T3"]
      [] item = G10b -> [issueNumber |-> <<1, 0>>, number |-> <<1, 2>>, openTime |-> "T5"]

GoodItems == {G10, G9, G9b, G10b}

\* the row stored from the item (each well-formed item of the feed has its
\* own label) is in the table among the 50 greatest issues
StoredAndRecent(item) ==
    \E k \in 1..Len(db) :
        /\ db[k].open_time = item.openTime
        /\ Cardinality({j \in 1..Len(db) : StrLess(db[k].issue, db[j].issue)}) < 50

\* C8: a successful response has the shape {code: 0, msg: "Success", data:
\* {totalCount, list}}, and for every well-formed upstream item a cycle has
\* stored, its list holds {issueNumber: the identifier as text, number: the
\* decimal text of the integer code, openTime: the label unchanged}.
RoundTripShape ==
    [][(resp = NoResponse /\ resp' # NoResponse /\ resp'.status = 200) =>
          /\ DOMAIN resp'.body = {"code", "msg", "data"}
          /\ resp'.body.code = 0
          /\ resp'.body.msg = "Success"
          /\ DOMAIN resp'.body.data = {"totalCount", "list"}
          /\ \A item \in GoodItems :
                StoredAndRecent(item) =>
                    \E i \in 1..Len(resp'.body.data.list) :
                        resp'.body.data.list[i] = Listed(item)]_vars

\* the item {issueNumber: 9, number: "07"} was stored and is listed as
\* {issueNumber: "9", number: "7"}
RoundTripWitness ==
    /\ resp # NoResponse
    /\ resp.status = 200
    /\ \E i \in 1..Len(resp.body.data.list) :
          resp.body.data.list[i] =
              [issueNumber |-> <<9>>, number |-> <<7>>, openTime |-> "T2"]

\* the cycle received a body and reached the loop
GotBody(f) ==
    /\ Finished(f)
    /\ exc[f] \notin {"UpstreamError", "ConnectError"}

AllWellFormed(body) == \A k \in 1..Len(body) : WellFormed(body[k])

\* every well-formed item of the body has its issue stored
AllStored(body) ==
    \A k \in 1..Len(body) :
        WellFormed(body[k]) => HasIssue(db, Normalize(body[k]).issue)

\* C10: a malformed item is skipped alone: when a cycle that received a body
\* ends, every well-formed item of the body, before and after a malformed
\* one, is stored.
PerItemIsolation ==
    \A f \in Fetchers :
        (GotBody(f) /\ exc[f] \in {"none", "KeyError", "ValueError"}) =>
            AllStored(data[f])

\* C2: a cycle run right after a cycle that received the identical body ends
\* with every distinct issue of the body stored exactly once and with the
\* table exactly as the first run left it.
IdempotentCycle ==
    (/\ GotBody(Scheduled)
     /\ prev.exc \notin {"never", "UpstreamError", "ConnectError"}
     /\ prev.data = data[Scheduled]) =>
        /\ \A k \in 1..Len(data[Scheduled]) :
              WellFormed(data[Scheduled][k]) =>
                  CountIssue(db, Normalize(data[Scheduled][k]).issue) = 1
        /\ db = prev.db

\* C5: a cycle whose upstream call failed ends with the table as the cycle
\* before it left it, and the cycle after it that receives a body ends with
\* every item of that body stored.
FailureIsolation ==
    /\ (pc[Scheduled] = "failed" /\ exc[Scheduled] = "UpstreamError") => db = prev.db
    /\ (GotBody(Scheduled) /\ prev.exc = "UpstreamError") => AllStored(data[Scheduled])

\* C4: a cycle whose insert met a duplicate key goes on as if the insert had
\* succeeded: when it ends, every item of its (well-formed) body is stored.
DuplicateKeyIsNoOp ==
    \A f \in Fetchers :
        (GotBody(f) /\ AllWellFormed(data[f]) /\ exc[f] \in {"none", "IntegrityError"}) =>
            AllStored(data[f])

\* C3: when both cycles have ended, an issue that both had found absent
\* before either inserted it is stored exactly once.
BenignRace ==
    (\A f \in Fetchers : pc[f] \in {"idle", "done", "failed"}) =>
        \A x \in raced : CountIssue(db, x) = 1

\* C11: an operation that has reached its end, a fetch cycle that committed
\* or was stopped by an exception, a /api/history request that has built its
\* response, holds no connection that is still open: the connection was
\* never opened or it has been closed.
ConnectionReleased ==
    /\ \A f \in Fetchers : Finished(f) => conn[f] \in {"none", "closed"}
    /\ resp # NoResponse => rd.conn \in {"none", "closed"}

\* C12: whatever error ends a cycle, the exception is caught inside
\* fetch_job and never leaves it; the failed cycle can return, after which
\* the job is idle with no connection and no open transaction, so that the
\* next scheduled cycle can start; and /api/history can always take or
\* deliver a request.
FetcherNeverTerminates ==
    /\ \A f \in Fetchers :
          /\ pc[f] # "raised"
          /\ pc[f] = "failed" => (exc[f] # "none" /\ ENABLED Return(f))
          /\ pc[f] = "idle" =>
                /\ conn[f] = "none" /\ pending[f] = <<>>
                /\ ENABLED Fetch(f)
    /\ ENABLED (GetHistory \/ Deliver)

\* the cycle before this one was ended by a KeyError; this one has inserted
\* and committed a record, and the endpoint is answering with a success
NextCycleInsertsWitness ==
    /\ prev.exc = "KeyError"
    /\ pc[Scheduled] = "done"
    /\ new_count[Scheduled] > 0
    /\ resp.status = 200

\* C13: when a store operation of a /api/history request raised (connect,
\* execute or fetchall), the response has status 500 and its body is the
\* error object alone, with no code, msg or data field; when none raised the
\* response is the success payload; and between requests the handler holds
\* nothing of the failed request, so the next request is served as the
\* first one was.
ReaderFailureMode ==
    /\ (resp # NoResponse /\ rd.exc # "none") =>
          /\ resp.status = 500
          /\ DOMAIN resp.body = {"error"}
    /\ (resp # NoResponse /\ rd.exc = "none") =>
          /\ resp.status = 200
          /\ resp.body.code = 0
    /\ resp = NoResponse => (rd = IdleReader /\ ENABLED GetHistory)

\* a request whose query raised after the connection was opened has been
\* answered with the error payload, on a store that holds records
ReaderFailureWitness ==
    /\ rd.exc = "QueryError"
    /\ resp = ErrorPayload
    /\ Len(db) >= 1

\* the number of stored rows whose issue is greater than this one
RowsAbove(issue) == Cardinality({j \in 1..Len(db) : StrLess(issue, db[j].issue)})

\* C14: a /api/history request answered with success after a cycle has
\* completed (committed and closed) lists every issue of that cycle's body,
\* the records the cycle inserted among them, as far as the issue is among
\* the 50 greatest stored.
ReadYourCommits ==
    [][(resp = NoResponse /\ resp'.status = 200) =>
          \A f \in Fetchers : pc[f] = "done" =>
              \A k \in 1..Len(data[f]) :
                  LET issue == PyStr(data[f][k].issueNumber)
                      list == resp'.body.data.list
                  IN  RowsAbove(issue) < HistoryLimit =>
                          \E i \in 1..Len(list) : list[i].issueNumber = issue]_vars

\* a cycle has inserted and committed the one record of its body, and the
\* response of a request lists it
ReadYourCommitsWitness ==
    \E f \in Fetchers :
        /\ pc[f] = "done"
        /\ Len(data[f]) = 1
        /\ new_count[f] = 1
        /\ resp.status = 200
        /\ \E i \in 1..Len(resp.body.data.list) :
              resp.body.data.list[i].issueNumber = PyStr(data[f][1].issueNumber)

\* C15: degraded-mode equivalence.  Every step the program takes on the
\* engine it is configured with is also the step it takes on the other
\* engine from the same state: the same rows stored, the same exception or
\* none, the same /api/history response.
ModeEquivalence ==
    [][\A b \in {"pg", "sqlite"} : StepOn(b)]_vars

FirstNew(table, body) ==
    {k \in 1..Len(body) :
        /\ ~HasIssue(table, PyStr(body[k].issueNumber))
        /\ \A j \in 1..(k - 1) :
              PyStr(body[j].issueNumber) # PyStr(body[k].issueNumber)}

\* C17: when a response repeats an issue, the later occurrence finds the
\* row the cycle itself inserted for the earlier one: no unique violation
\* is raised, and a completed cycle has added exactly one row per distinct
\* new issue, built from its first occurrence, and counted that many.
DuplicatesInOneResponse ==
    LET f == Scheduled
        new == FirstNew(prev.db, data[f])
    IN  /\ exc[f] # "IntegrityError"
        /\ pc[f] = "done" =>
              /\ new_count[f] = Cardinality(new)
              /\ Len(db) = Len(prev.db) + Cardinality(new)
              /\ \A k \in new :
                    \E i \in (Len(prev.db) + 1)..Len(db) :
                        db[i] = Normalize(data[f][k])

\* a cycle on an empty table has completed a body with issue 9 twice: one
\* row, from the first occurrence (code 5), and a count of one
DuplicatesWitness ==
    /\ pc[Scheduled] = "done"
    /\ data[Scheduled] = <<G9b, G9>>
    /\ prev.db = <<>>
    /\ db = <<Normalize(G9b)>>
    /\ new_count[Scheduled] = 1

\* C18: the committed table changes only in the step that completes a
\* cycle, and then by all the rows of that cycle's transaction at once; every
\* other step, an insert, an exception, the return of a stopped cycle,
\* leaves it as it was.  A successful /api/history response shows the
\* committed table (50 rows at most) and none of the rows of a transaction
\* that is still open: of the rows one cycle adds it shows all or none.
CycleAtomicity ==
    [][/\ db' # db =>
             \E f \in Fetchers :
                 /\ pc[f] = "item" /\ pc'[f] = "done"
                 /\ pending[f] # <<>> /\ pending'[f] = <<>>
                 /\ db' = db \o pending[f]
       /\ (resp = NoResponse /\ resp'.status = 200) =>
             LET list == resp'.body.data.list
             IN  /\ Len(list) = Min(Len(db), HistoryLimit)
                 /\ \A i \in 1..Len(list) :
                       \E j \in 1..Len(db) : list[i] = FormatRow(db[j])
                 /\ \A f \in Fetchers : \A k \in 1..Len(pending[f]) :
                       \A i \in 1..Len(list) :
                           list[i] # FormatRow(pending[f][k])]_vars

\* a cycle was stopped by an exception after it had inserted a row; the
\* table is still empty, and a request answered meanwhile listed nothing
AbortedCycleWitness ==
    \E f \in Fetchers :
        /\ pc[f] = "failed"
        /\ new_count[f] >= 1 /\ pending[f] # <<>>
        /\ db = <<>>
        /\ resp.status = 200
        /\ resp.body.data.list = <<>>

\* C19: in every successful /api/history response data.totalCount is the
\* length of data.list and is at most 50, whatever the number of stored
\* records.
ResponseSize ==
    resp.status = 200 =>
        /\ resp.body.data.totalCount = Len(resp.body.data.list)
        /\ resp.body.data.totalCount <= HistoryLimit

\* the table holds more than 50 records and the response counts 50
ResponseSizeWitness ==
    /\ Len(db) > HistoryLimit
    /\ resp.status = 200
    /\ resp.body.data.totalCount = HistoryLimit
    /\ Len(resp.body.data.list) = HistoryLimit

=============================================================================
